---- MODULE Spec2Model ----
(***************************************************************************)
(* Model of hobo.py: Hobo.from_csv, the header scan (find_headers), the    *)
(* column classification (find_columns and the find_col_* passes), the     *)
(* descriptor extraction (find_name / find_long_name / find_units), the    *)
(* table assembly (rename, filter, QC keys) and the optional QC pass.      *)
(*                                                                         *)
(* A Python str is a sequence of one-character strings, so that "in",      *)
(* split, rsplit, strip and the regular expression are computed on the     *)
(* characters as Python computes them.  Python's None is the value None.   *)
(* A Python list index i is the TLA+ position i + 1.                       *)
(***************************************************************************)
EXTENDS Integers, Sequences, FiniteSets, TLC

\* ------------------------------------------------------------------ bounds
\* Number of lines of the file drawn freely from Vocabulary.
MaxLines == 2
\* Number of data rows appended after those lines.
MaxRows == 1

\* ------------------------------------------------------- Python str model
\* None; no str equals it, since every element of a str is one character.
None == <<"None">>
\* find_col_timestamp falls off its loop and returns None: no index.
NoIndex == -1

\* str.strip() with no argument strips whitespace.
Whitespace == {" ", "\n", "\t", "\r"}
Digits == {"0", "1", "2", "3", "4", "5", "6", "7", "8", "9"}

\* sub occurs in s at position i (1-based).
OccursAt(s, sub, i) ==
    /\ i >= 1
    /\ i + Len(sub) - 1 <= Len(s)
    /\ \A k \in 1..Len(sub) : s[i + k - 1] = sub[k]

\* Python: sub in s
Contains(s, sub) == \E i \in 1..(Len(s) + 1) : OccursAt(s, sub, i)

\* Python: s.split(sep, maxsplit) for a one-character sep; maxsplit < 0 is no limit.
RECURSIVE SplitFrom(_, _, _, _, _)
SplitFrom(s, sep, maxsplit, i, cur) ==
    IF i > Len(s) THEN <<cur>>
    ELSE IF s[i] = sep /\ maxsplit # 0
         THEN <<cur>> \o SplitFrom(s, sep, maxsplit - 1, i + 1, <<>>)
         ELSE SplitFrom(s, sep, maxsplit, i + 1, Append(cur, s[i]))

Split(s, sep, maxsplit) == SplitFrom(s, sep, maxsplit, 1, <<>>)

\* Python: s.rsplit(sep, 1) for a one-character sep.
RSplit1(s, sep) ==
    LET at == {i \in 1..Len(s) : s[i] = sep}
    IN  IF at = {} THEN <<s>>
        ELSE LET last == CHOOSE i \in at : \A j \in at : j <= i
             IN  <<SubSeq(s, 1, last - 1), SubSeq(s, last + 1, Len(s))>>

\* Python: s.strip(chars)
Strip(s, chars) ==
    LET keep == {i \in 1..Len(s) : s[i] \notin chars}
    IN  IF keep = {} THEN <<>>
        ELSE LET lo == CHOOSE i \in keep : \A j \in keep : i <= j
                 hi == CHOOSE i \in keep : \A j \in keep : j <= i
             IN  SubSeq(s, lo, hi)

\* ------------------------------------------------------------ the literals
COMMA == ","
COLON == ":"
SPACE == " "
QUOTE == "\""
NEWLINE == "\n"
CR == "\r"

sDateTime == <<"D","a","t","e"," ","T","i","m","e">>
sFechaTiempo == <<"F","e","c","h","a"," ","T","i","e","m","p","o">>
sHighResTempDot == <<"H","i","g","h"," ","R","e","s","."," ","T","e","m","p",".">>
sHighResTemp == <<"H","i","g","h","-","R","e","s"," ","T","e","m","p">>
sTempComma == <<"T","e","m","p",",">>
sTempDot == <<"T","e","m","p",".">>
sTemperature == <<"T","e","m","p","e","r","a","t","u","r","e">>
sPresAbs == <<"P","r","e","s"," ","a","b","s",",">>
sRHComma == <<"R","H",",">>
sBattV == <<"B","a","t","t",","," ","V">>
sTemp == <<"T","e","m","p">>
sPres == <<"P","r","e","s">>
sBatt == <<"B","a","t","t">>
sRH == <<"R","H">>
sLBL == <<"L","B","L">>
sLGR == <<"L","G","R"," ","S","/","N",":"," ">>
sSerialNumber == <<"S","e","r","i","a","l"," ","N","u","m","b","e","r",":">>
sQC == <<"_","Q","C">>
sSN == <<"S","/","N">>
\* "{}".format(None)
sNone == <<"N","o","n","e">>

\* ------------------------------------------------------------- the errors
NoError == "none"
StopIteration == "StopIteration"
IndexError == "IndexError"
AttributeError == "AttributeError"
ValueError == "ValueError"
TypeError == "TypeError"
\* The value of an expression whose evaluation raises IndexError.
RaisesIndexError == <<"IndexError">>

\* ---------------------------------------------------------- SN_REGEX
\* The maximal run of digits of s starting at position i: (\d+), greedy.
RECURSIVE DigitRun(_, _)
DigitRun(s, i) ==
    IF i <= Len(s) /\ s[i] \in Digits THEN <<s[i]>> \o DigitRun(s, i + 1) ELSE <<>>

\* A pattern (?:k1|k2|...)(\d+) matches at position i of s: one of the keywords
\* kws, then at least one digit.
MatchAt(kws, s, i) ==
    \E kw \in kws :
        /\ OccursAt(s, kw, i)
        /\ i + Len(kw) <= Len(s)
        /\ s[i + Len(kw)] \in Digits

\* re.search of such a pattern: groups()[0] of the leftmost match, or None.
regex_search(kws, s) ==
    LET at == {i \in 1..Len(s) : MatchAt(kws, s, i)}
    IN  IF at = {} THEN None
        ELSE LET first == CHOOSE i \in at : \A j \in at : i <= j
                 kw == CHOOSE k \in kws : OccursAt(s, k, first)
             IN  DigitRun(s, first + Len(kw))

\* The alternatives of SN_REGEX: 'LGR S/N: ' and 'Serial Number:'.
SN_Keywords == {sLGR, sSerialNumber}

\* SN_REGEX.search(header), then groups()[0] if sn_match else None
SN_REGEX_search(header) == regex_search(SN_Keywords, header)

\* --------------------------------------------------------- csv.reader
\* next(csv.reader(StringIO(header))) with the default (excel) dialect: the
\* parser of the csv module, one character at a time.  st is the parser state,
\* fields the fields saved so far, cur the field being read.
RECURSIVE csv_parse(_, _, _, _, _)
csv_parse(s, i, st, fields, cur) ==
    IF i > Len(s)
    THEN \* end of the input
         IF st \in {"IN_FIELD", "IN_QUOTED_FIELD", "QUOTE_IN_QUOTED_FIELD", "START_FIELD"}
         THEN Append(fields, cur)
         ELSE fields
    ELSE LET c == s[i] IN
         CASE st = "START_RECORD" ->
                IF c \in {NEWLINE, CR} THEN fields
                ELSE csv_parse(s, i, "START_FIELD", fields, cur)
           [] st = "START_FIELD" ->
                IF c \in {NEWLINE, CR} THEN Append(fields, <<>>)
                ELSE IF c = QUOTE THEN csv_parse(s, i + 1, "IN_QUOTED_FIELD", fields, <<>>)
                ELSE IF c = COMMA THEN csv_parse(s, i + 1, "START_FIELD", Append(fields, <<>>), <<>>)
                ELSE csv_parse(s, i + 1, "IN_FIELD", fields, <<c>>)
           [] st = "IN_FIELD" ->
                IF c \in {NEWLINE, CR} THEN Append(fields, cur)
                ELSE IF c = COMMA THEN csv_parse(s, i + 1, "START_FIELD", Append(fields, cur), <<>>)
                ELSE csv_parse(s, i + 1, "IN_FIELD", fields, Append(cur, c))
           [] st = "IN_QUOTED_FIELD" ->
                IF c = QUOTE THEN csv_parse(s, i + 1, "QUOTE_IN_QUOTED_FIELD", fields, cur)
                ELSE csv_parse(s, i + 1, "IN_QUOTED_FIELD", fields, Append(cur, c))
           [] st = "QUOTE_IN_QUOTED_FIELD" ->
                IF c = QUOTE THEN csv_parse(s, i + 1, "IN_QUOTED_FIELD", fields, Append(cur, c))
                ELSE IF c = COMMA THEN csv_parse(s, i + 1, "START_FIELD", Append(fields, cur), <<>>)
                ELSE IF c \in {NEWLINE, CR} THEN Append(fields, cur)
                ELSE csv_parse(s, i + 1, "IN_FIELD", fields, Append(cur, c))

csv_reader(header) == csv_parse(header, 1, "START_RECORD", <<>>, <<>>)

\* ------------------------------------------------- descriptor extraction
\* list[1], or the IndexError of a list with one element.
Item1(list) == IF Len(list) < 2 THEN RaisesIndexError ELSE list[2]

\* header_units.split(" ")[0].strip(), for header_units = <...>[1].strip()
units_of(item) ==
    IF item = RaisesIndexError THEN RaisesIndexError
    ELSE Strip(Split(Strip(item, Whitespace), SPACE, -1)[1], Whitespace)

\* header.split(",", 2)[1].strip(), then .split(" ")[0].strip()
find_units(header) == units_of(Item1(Split(header, COMMA, 2)))

\* The LBL: tag of header_name.split(":"), else the text before the first comma.
name_of(tag, header) ==
    IF Strip(tag[1], Whitespace) = sLBL
    THEN IF Len(tag) < 2 THEN RaisesIndexError ELSE Strip(tag[2], Whitespace)
    ELSE Strip(Split(header, COMMA, 1)[1], Whitespace)

\* header_name = <...>[1].strip(" )"), then the name it gives
name_from(item, header) ==
    IF item = RaisesIndexError THEN RaisesIndexError
    ELSE name_of(Split(Strip(item, {" ", ")"}), COLON, -1), header)

\* header.rsplit(",", 1)[1].strip(" )"); the LBL: tag, else the text before
\* the first comma.
find_name(header) == name_from(Item1(RSplit1(header, COMMA)), header)

\* header.split(",", 1)[0].strip()
find_long_name(header) == Strip(Split(header, COMMA, 1)[1], Whitespace)

\* The list of the three, or the IndexError the evaluation of one raised.
descriptor_list(n, l, u) ==
    IF n = RaisesIndexError \/ u = RaisesIndexError
    THEN RaisesIndexError
    ELSE <<n, l, u>>

\* [find_name(header), find_long_name(header), find_units(header)]: the list
\* the find_col_* passes store, or the IndexError its evaluation raises.
Descriptor(header) ==
    descriptor_list(find_name(header), find_long_name(header), find_units(header))

\* ------------------------------------------------ column classification
\* The four channel slots of self.name, and the list [None, None, None].
Slots == {"temp", "pres", "rh", "batt"}
Absent == <<None, None, None>>
\* A list-valued attribute that is still None (self.title, self.headers).
NoneList == <<None>>

\* 'Date Time' in header or 'Fecha Tiempo' in header
is_timestamp(header) == Contains(header, sDateTime) \/ Contains(header, sFechaTiempo)

\* The first i with a timestamp marker in headers[i]; None when the loop ends.
find_col_timestamp(hs) ==
    LET at == {i \in 1..Len(hs) : is_timestamp(hs[i])}
    IN  IF at = {} THEN NoIndex
        ELSE (CHOOSE i \in at : \A j \in at : i <= j) - 1

\* 'High Res. Temp.' in header or 'High-Res Temp' in header
is_temp_primary(header) ==
    Contains(header, sHighResTempDot) \/ Contains(header, sHighResTemp)

\* A fallback pass that knows 'Temperature' alone, and so never sees the
\* primary field again.
is_temp_fallback_OnlyTemperature(header) == Contains(header, sTemperature)

\* for s in ('Temp,', 'Temp.', 'Temperature'): if s in header
is_temp_fallback(header) ==
    \E s \in {sTempComma, sTempDot, sTemperature} : Contains(header, s)

is_pres(header) == Contains(header, sPresAbs)
is_rh(header) == Contains(header, sRHComma)
is_batt(header) == Contains(header, sBattV)

\* One turn of a pass on a matching header: its descriptor d is stored and the
\* pass goes on, or the evaluation of d raised and the slot (cur) is as it was.
RECURSIVE assign_pass(_, _, _, _)
assign_turn(cur, d, hs, match, i) ==
    IF d = RaisesIndexError
    THEN [val |-> cur, raised |-> TRUE]
    ELSE assign_pass(d, hs, match, i + 1)

\* One "for i, header in enumerate(headers)" pass that stores the descriptor of
\* every header with match[i]; cur is the slot before the pass.  The pass ends
\* at the first header whose descriptor raises.
assign_pass(cur, hs, match, i) ==
    IF i > Len(hs) THEN [val |-> cur, raised |-> FALSE]
    ELSE IF match[i]
         THEN assign_turn(cur, Descriptor(hs[i]), hs, match, i)
         ELSE assign_pass(cur, hs, match, i + 1)

\* The second loop of find_col_temperature, after the first.
fallback_pass(primary, hs) ==
    IF primary.raised THEN primary
    ELSE assign_pass(primary.val, hs,
             [i \in 1..Len(hs) |-> is_temp_fallback(hs[i])], 1)

\* The primary pass, then the fallback pass, both over all the headers.
find_col_temperature(cur, hs) ==
    fallback_pass(assign_pass(cur, hs,
                      [i \in 1..Len(hs) |-> is_temp_primary(hs[i])], 1), hs)

find_col_preassure(cur, hs) ==
    assign_pass(cur, hs, [i \in 1..Len(hs) |-> is_pres(hs[i])], 1)

find_col_rh(cur, hs) ==
    assign_pass(cur, hs, [i \in 1..Len(hs) |-> is_rh(hs[i])], 1)

find_col_battery(cur, hs) ==
    assign_pass(cur, hs, [i \in 1..Len(hs) |-> is_batt(hs[i])], 1)

\* self.name after a pass on the slot; after a pass that raised no later pass
\* runs.
after_pass(st, slot, pass) ==
    IF st.raised THEN st
    ELSE [name |-> [st.name EXCEPT ![slot] = pass.val], raised |-> pass.raised]

\* The four passes of find_columns, in order, on self.name (nm).
find_col_passes(nm, hs) ==
    after_pass(
      after_pass(
        after_pass(
          after_pass([name |-> nm, raised |-> FALSE],
                     "temp", find_col_temperature(nm.temp, hs)),
          "pres", find_col_preassure(nm.pres, hs)),
        "rh", find_col_rh(nm.rh, hs)),
      "batt", find_col_battery(nm.batt, hs))

\* self.headers, self.timestamp, then the passes.
find_columns_of(nm, hs, passes) ==
    [headers |-> hs,
     timestamp |-> find_col_timestamp(hs),
     name |-> passes.name,
     raised |-> passes.raised]

find_columns_on(nm, hs) == find_columns_of(nm, hs, find_col_passes(nm, hs))

\* find_columns(header): self.headers, self.timestamp, then the four passes in
\* order on self.name (nm); a pass that raises leaves the later slots as they were.
find_columns(nm, header) == find_columns_on(nm, csv_reader(header))

\* ------------------------------------------------------------ find_headers
\* A loop written "while not self.timestamp": column 0 reads on.
LoopContinues_Truthy(ts) == ts = NoIndex \/ ts = 0

\* while self.timestamp is None
LoopContinues(ts) == ts = NoIndex

\* self.title = header.strip().split(":"), on the first line read only
title_update(ttl, header) ==
    IF ttl = NoneList THEN Split(Strip(header, Whitespace), COLON, -1) ELSE ttl

\* The search without the "if self.sn is None" guard: every line overwrites.
sn_update_Overwrite(s, header) == SN_REGEX_search(header)

\* if self.sn is None: self.sn = groups()[0] if sn_match else None
sn_update(s, header) == IF s = None THEN SN_REGEX_search(header) ELSE s

\* A slot find_columns has not assigned: it stays as it was.
Keep == <<"keep">>
KeepAll == [s \in Slots |-> Keep]

\* ------------------------------------------------------------ the input
\* The lines a file is made of; every line ends with its line break.
Vocabulary == <<
    <<"P","l","o","t"," ","T","i","t","l","e",":"," ","A","\n">>,
    <<"L","G","R"," ","S","/","N",":"," ","5","\n">>,
    <<"S","e","r","i","a","l"," ","N","u","m","b","e","r",":","7","\n">>,
    <<"S","e","r","i","a","l"," ","N","u","m","b","e","r",":"," ","7","\n">>,
    <<"T","e","m","p","e","r","a","t","u","r","e","\n">>,
    <<"\"","T","e","m","p",","," ","C","\"","\n">>,
    <<"\"","D","a","t","e"," ","T","i","m","e","\"",",","\"","#","\"",",","\"","D","a","t","e"," ","T","i","m","e",","," ","G","M","T","\"","\n">>,
    <<"#",",","\"","D","a","t","e"," ","T","i","m","e","\"",",","\"","T","e","m","p",","," ","C"," ","(","L","G","R"," ","S","/","N",":"," ","5",","," ","L","B","L",":"," ","W",")","\"","\n">>,
    <<"\"","D","a","t","e"," ","T","i","m","e","\"",",","\"","H","i","g","h"," ","R","e","s","."," ","T","e","m","p",".",","," ","C","\"",",","\"","T","e","m","p","e","r","a","t","u","r","e",","," ","F","\"","\n">>,
    <<"\"","D","a","t","e"," ","T","i","m","e","\"",",","\"","T","e","m","p","e","r","a","t","u","r","e",","," ","F","\"",",","\"","H","i","g","h"," ","R","e","s","."," ","T","e","m","p",".",","," ","C","\"","\n">>,
    <<"\"","D","a","t","e"," ","T","i","m","e","\"",",","\"","P","r","e","s","s","u","r","e","\"",",","\"","B","a","t","t",","," ","V","\"","\n">>,
    <<"\"","D","a","t","e"," ","T","i","m","e","\"",",","\"","T","e","m","p",","," ","C","\"",",","\"","T","e","m","p",","," ","F","\"","\n">>,
    <<"\"","F","e","c","h","a"," ","T","i","e","m","p","o","\"",",","\"","P","r","e","s"," ","a","b","s",","," ","k","P","a","\"",",","\"","R","H",","," ","%","\"","\n">>,
    <<"1",",","2","\n">> >>

\* The data row appended MaxRows times at most: the last line of Vocabulary.
RowLine == Len(Vocabulary)

\* The files: up to MaxLines lines of Vocabulary, then up to MaxRows data rows.
SeqsUpTo(S, n) == UNION {[1..k -> S] : k \in 0..n}
Files == {h \o r : h \in SeqsUpTo(1..Len(Vocabulary), MaxLines),
                    r \in SeqsUpTo({RowLine}, MaxRows)}


\* find_columns on each line of Vocabulary, computed once: the passes read a
\* slot only to leave it as it is, so the effect on self.name is the slots
\* assigned.
Classified == [i \in 1..Len(Vocabulary) |-> find_columns(KeepAll, Vocabulary[i])]

\* ------------------------------------------------------------ the state
VARIABLES
    file,       \* the lines of the file at self.path, as positions in Vocabulary
    pc,         \* where from_csv stands
    err,        \* the exception from_csv raised at pc, or NoError
    qc_tests,   \* the argument of from_csv
    pos,        \* self.f: the number of lines read from the handle
    title,      \* self.title
    sn,         \* self.sn
    timestamp,  \* self.timestamp
    name,       \* self.name
    headers,    \* self.headers
    metadata,   \* wf.metadata
    df,         \* the table: data columns, QC columns, the lines its rows come from
    flags,      \* the values of the QC columns, by column and row
    meaning,    \* wf.meaning
    qcParam,    \* QC pass: position in wf.parameters()
    qcStep,     \* QC pass: position in QcOrder
    qcLog       \* the QC calls made so far, in order

vars == <<file, pc, err, qc_tests, pos, title, sn, timestamp, name, headers,
          metadata, df, flags, meaning, qcParam, qcStep, qcLog>>

LineText(i) == Vocabulary[file[i]]

NoFrame == [data |-> <<>>, qc |-> <<>>, rows |-> <<>>]
NoName == [s \in Slots |-> Absent]

\* Hobo(path): only the path is set; the file is whatever lies at the path.
Init ==
    /\ file \in Files
    /\ pc = "init"
    /\ err = NoError
    /\ qc_tests = FALSE
    /\ pos = 0
    /\ title = NoneList
    /\ sn = None
    /\ timestamp = NoIndex
    /\ name = NoName
    /\ headers = NoneList
    /\ metadata = <<>>
    /\ df = NoFrame
    /\ flags = <<>>
    /\ meaning = <<>>
    /\ qcParam = 1
    /\ qcStep = 1
    /\ qcLog = <<>>

\* from_csv(qc_tests) is called (again, once an earlier call has ended): the
\* file is opened and the attributes are declared.  self.headers is not.
FromCsv(q) ==
    /\ pc \in {"init", "returned"} \/ err # NoError
    /\ pc' = "scan"
    /\ err' = NoError
    /\ qc_tests' = q
    /\ pos' = 0
    /\ title' = NoneList
    /\ sn' = None
    /\ timestamp' = NoIndex
    /\ name' = NoName
    /\ metadata' = <<>>
    /\ df' = NoFrame
    /\ flags' = <<>>
    /\ meaning' = <<>>
    /\ qcParam' = 1
    /\ qcStep' = 1
    /\ qcLog' = <<>>
    /\ UNCHANGED <<file, headers>>

\* The assignments of one turn of the loop on the line header, fc being what
\* find_columns assigns on it.
scan_turn(header, fc) ==
    /\ pos' = pos + 1
    /\ title' = title_update(title, header)
    /\ sn' = sn_update(sn, header)
    /\ headers' = fc.headers
    /\ timestamp' = fc.timestamp
    /\ name' = [s \in Slots |-> IF fc.name[s] = Keep THEN name[s] ELSE fc.name[s]]
    /\ err' = IF fc.raised THEN IndexError ELSE NoError
    /\ pc' = IF ~fc.raised /\ ~LoopContinues(fc.timestamp) THEN "metadata" ELSE "scan"

\* One turn of the loop of find_headers on a line of the file.
ScanLine ==
    /\ pc = "scan" /\ err = NoError
    /\ LoopContinues(timestamp)
    /\ pos < Len(file)
    /\ scan_turn(LineText(pos + 1), Classified[file[pos + 1]])
    /\ UNCHANGED <<file, qc_tests, metadata, df, flags, meaning, qcParam, qcStep, qcLog>>

\* next(self.f) on the exhausted handle.
ScanExhausted ==
    /\ pc = "scan" /\ err = NoError
    /\ LoopContinues(timestamp)
    /\ pos = Len(file)
    /\ err' = StopIteration
    /\ UNCHANGED <<file, pc, qc_tests, pos, title, sn, timestamp, name, headers,
                   metadata, df, flags, meaning, qcParam, qcStep, qcLog>>

\* wf.metadata: {self.title[0]: self.title[1].strip(), "S/N": self.sn.strip()}
Metadata ==
    /\ pc = "metadata" /\ err = NoError
    /\ IF Len(title) < 2
       THEN err' = IndexError /\ UNCHANGED <<pc, metadata>>
       ELSE IF sn = None
            THEN err' = AttributeError /\ UNCHANGED <<pc, metadata>>
            ELSE /\ metadata' = [k \in {title[1], sSN} |->
                                    IF k = sSN THEN Strip(sn, Whitespace)
                                    ELSE Strip(title[2], Whitespace)]
                 /\ pc' = "read_csv"
                 /\ err' = NoError
    /\ UNCHANGED <<file, qc_tests, pos, title, sn, timestamp, name, headers,
                   df, flags, meaning, qcParam, qcStep, qcLog>>

HasDuplicates(s) == \E i, j \in 1..Len(s) : i # j /\ s[i] = s[j]

\* pd.read_csv(self.f, names=self.headers, index_col=self.timestamp): one row
\* for each line left on the handle; the column of the index is no data column.
ReadCsv ==
    /\ pc = "read_csv" /\ err = NoError
    /\ IF HasDuplicates(headers)
       THEN err' = ValueError /\ UNCHANGED <<pc, pos, df>>
       ELSE /\ df' = [data |-> SubSeq(headers, 1, timestamp)
                                \o SubSeq(headers, timestamp + 2, Len(headers)),
                      qc |-> <<>>,
                      rows |-> [k \in 1..(Len(file) - pos) |-> pos + k]]
            /\ pos' = Len(file)
            /\ pc' = "rename"
            /\ err' = NoError
    /\ UNCHANGED <<file, qc_tests, title, sn, timestamp, name, headers, metadata,
                   flags, meaning, qcParam, qcStep, qcLog>>

\* ---------------------------------------------------------- table assembly
\* The branch of the rename loop for one column: the display name of the slot
\* whose substring the label contains, or the label itself (no rename).
rename_to(col, nm) ==
    IF Contains(col, sTemp) THEN nm.temp[1]
    ELSE IF Contains(col, sPres) THEN nm.pres[1]
    ELSE IF Contains(col, sBatt) THEN nm.batt[1]
    ELSE IF Contains(col, sRH) THEN nm.rh[1]
    ELSE col

\* df.rename(columns={col: new}, inplace=True)
rename(labels, col, new) ==
    [i \in 1..Len(labels) |-> IF labels[i] = col THEN new ELSE labels[i]]

\* for col in df.columns: the columns as they were before the loop.
RECURSIVE rename_loop(_, _, _, _)
rename_loop(labels, cols, nm, i) ==
    IF i > Len(cols) THEN labels
    ELSE rename_loop(rename(labels, cols[i], rename_to(cols[i], nm)), cols, nm, i + 1)

RenameColumns ==
    /\ pc = "rename" /\ err = NoError
    /\ df' = [df EXCEPT !.data = rename_loop(df.data, df.data, name, 1)]
    /\ pc' = "filter"
    /\ UNCHANGED <<file, err, qc_tests, pos, title, sn, timestamp, name, headers,
                   metadata, flags, meaning, qcParam, qcStep, qcLog>>

InSeq(x, s) == \E i \in 1..Len(s) : s[i] = x

\* items=[temp, pres, batt, rh display names]
filter_items(nm) == <<nm.temp[1], nm.pres[1], nm.batt[1], nm.rh[1]>>

\* DataFrame.filter(items=...): [r for r in items if r in labels]
filter_target(labels, items) ==
    LET present(r) == InSeq(r, labels)
    IN  SelectSeq(items, present)

\* df.filter(items=...): a reindex of the columns to filter_target, which pandas
\* refuses on an axis with duplicate labels.  None is a label like any other:
\* a column renamed to None is kept, once for each absent slot of the items.
FilterColumns ==
    /\ pc = "filter" /\ err = NoError
    /\ LET target == filter_target(df.data, filter_items(name))
       IN  IF HasDuplicates(df.data) /\ target # <<>> /\ target # df.data
           THEN err' = ValueError /\ UNCHANGED <<pc, df>>
           ELSE /\ df' = [df EXCEPT !.data = target]
                /\ pc' = "qc_keys"
                /\ err' = NoError
    /\ UNCHANGED <<file, qc_tests, pos, title, sn, timestamp, name, headers,
                   metadata, flags, meaning, qcParam, qcStep, qcLog>>

\* The flag values the source writes.
FlagUnchecked == 0
FlagGood == 1
FlagBad == 4

\* "{}_QC".format(key)
QcLabel(key) == (IF key = None THEN sNone ELSE key) \o sQC

\* for key in df.keys(): df[QcLabel(key)] = 0 -- a new column is appended, an
\* existing one is overwritten in place.
RECURSIVE qc_keys_loop(_, _, _)
qc_keys_loop(qc, keys, i) ==
    IF i > Len(keys) THEN qc
    ELSE IF InSeq(QcLabel(keys[i]), keys) \/ InSeq(QcLabel(keys[i]), qc)
         THEN qc_keys_loop(qc, keys, i + 1)
         ELSE qc_keys_loop(Append(qc, QcLabel(keys[i])), keys, i + 1)

\* Add QC keys, then wf.data = df.copy()
AddQcKeys ==
    /\ pc = "qc_keys" /\ err = NoError
    /\ df' = [df EXCEPT !.qc = qc_keys_loop(<<>>, df.data, 1)]
    /\ flags' = [c \in {QcLabel(df.data[i]) : i \in 1..Len(df.data)} |->
                    [r \in 1..Len(df.rows) |-> FlagUnchecked]]
    /\ pc' = "meaning"
    /\ UNCHANGED <<file, err, qc_tests, pos, title, sn, timestamp, name, headers,
                   metadata, meaning, qcParam, qcStep, qcLog>>

\* WaterFrame.parameters(): the keys of wf.data without "_QC" in them.
parameters(d) ==
    LET isParam(key) == ~Contains(key, sQC)
    IN  SelectSeq(d.data \o d.qc, isParam)

\* self.name.items(), in the order the dict was written.
SlotOrder == <<"temp", "pres", "rh", "batt">>

\* for parameter in wf.parameters(): for key, value in self.name.items():
\*     if value[0] == parameter: wf.meaning[parameter] = {long_name, units}
SetMeaning ==
    /\ pc = "meaning" /\ err = NoError
    /\ IF InSeq(None, df.data)
       THEN err' = TypeError /\ UNCHANGED <<pc, meaning>>
       ELSE LET ps == parameters(df)
                hit(p) == {k \in 1..Len(SlotOrder) : name[SlotOrder[k]][1] = p}
                last(p) == CHOOSE k \in hit(p) : \A j \in hit(p) : j <= k
            IN  /\ meaning' = [p \in {ps[i] : i \in {j \in 1..Len(ps) : hit(ps[j]) # {}}} |->
                                 <<name[SlotOrder[last(p)]][2], name[SlotOrder[last(p)]][3]>>]
                /\ pc' = "qc"
                /\ err' = NoError
    /\ UNCHANGED <<file, qc_tests, pos, title, sn, timestamp, name, headers,
                   metadata, df, flags, qcParam, qcStep, qcLog>>

\* ---------------------------------------------------------------- QC pass
\* The body with the reset moved to its end: the flags end at 0.
QcOrder_ResetLast == <<"flat_test", "spike_test", "range_test", "flag2flag", "reset_flag">>

\* The calls of the body of "for parameter in wf.parameters()", in order.
QcOrder == <<"reset_flag", "flat_test", "spike_test", "range_test", "flag2flag">>

\* wf.reset_flag(key, flag=0)
reset_flag(col) == [r \in DOMAIN col |-> FlagUnchecked]
\* wf.flat_test / spike_test / range_test (key, flag=4): the rows in bad get 4.
run_test(col, bad) == [r \in DOMAIN col |-> IF r \in bad THEN FlagBad ELSE col[r]]
\* wf.flag2flag(key, original_flag=0, translated_flag=1)
flag2flag(col) == [r \in DOMAIN col |-> IF col[r] = FlagUnchecked THEN FlagGood ELSE col[r]]

\* The parameter the QC pass stands at, and its QC column.
QcParameter == parameters(df)[qcParam]
QcKey == QcParameter \o sQC

\* The QC pass has a call left to make.
QcRunning ==
    /\ pc = "qc" /\ err = NoError
    /\ qc_tests
    /\ qcParam <= Len(parameters(df))

\* The effect on the control state of one call of the QC pass.
QcAdvance(call) ==
    /\ qcLog' = Append(qcLog, <<QcParameter, call>>)
    /\ qcStep' = IF qcStep = Len(QcOrder) THEN 1 ELSE qcStep + 1
    /\ qcParam' = IF qcStep = Len(QcOrder) THEN qcParam + 1 ELSE qcParam
    /\ UNCHANGED <<file, pc, err, qc_tests, pos, title, sn, timestamp, name, headers,
                   metadata, df, meaning>>

ResetFlag ==
    /\ QcRunning /\ QcOrder[qcStep] = "reset_flag"
    /\ flags' = [flags EXCEPT ![QcKey] = reset_flag(@)]
    /\ QcAdvance("reset_flag")

FlatTest ==
    /\ QcRunning /\ QcOrder[qcStep] = "flat_test"
    /\ \E bad \in SUBSET (1..Len(df.rows)) :
           flags' = [flags EXCEPT ![QcKey] = run_test(@, bad)]
    /\ QcAdvance("flat_test")

SpikeTest ==
    /\ QcRunning /\ QcOrder[qcStep] = "spike_test"
    /\ \E bad \in SUBSET (1..Len(df.rows)) :
           flags' = [flags EXCEPT ![QcKey] = run_test(@, bad)]
    /\ QcAdvance("spike_test")

RangeTest ==
    /\ QcRunning /\ QcOrder[qcStep] = "range_test"
    /\ \E bad \in SUBSET (1..Len(df.rows)) :
           flags' = [flags EXCEPT ![QcKey] = run_test(@, bad)]
    /\ QcAdvance("range_test")

Flag2Flag ==
    /\ QcRunning /\ QcOrder[qcStep] = "flag2flag"
    /\ flags' = [flags EXCEPT ![QcKey] = flag2flag(@)]
    /\ QcAdvance("flag2flag")

\* return wf
Return ==
    /\ pc = "qc" /\ err = NoError
    /\ ~qc_tests \/ qcParam > Len(parameters(df))
    /\ pc' = "returned"
    /\ UNCHANGED <<file, err, qc_tests, pos, title, sn, timestamp, name, headers,
                   metadata, df, flags, meaning, qcParam, qcStep, qcLog>>

\* ------------------------------------------------------ the specification
Next ==
    \/ \E q \in BOOLEAN : FromCsv(q)
    \/ ScanLine
    \/ ScanExhausted
    \/ Metadata
    \/ ReadCsv
    \/ RenameColumns
    \/ FilterColumns
    \/ AddQcKeys
    \/ SetMeaning
    \/ ResetFlag
    \/ FlatTest
    \/ SpikeTest
    \/ RangeTest
    \/ Flag2Flag
    \/ Return

Spec == Init /\ [][Next]_vars

\* ================================================================ claims
\* What the claims speak of, stated apart from the operators above.

\* Line i of the file has a field with a timestamp marker.
LineHasTimestamp ==
    [v \in 1..Len(Vocabulary) |->
        \E k \in 1..Len(csv_reader(Vocabulary[v])) :
            \/ Contains(csv_reader(Vocabulary[v])[k], sDateTime)
            \/ Contains(csv_reader(Vocabulary[v])[k], sFechaTiempo)]

\* The position (from 1) of the first line with a timestamp marker; 0 if none.
FirstTimestampLine ==
    LET at == {i \in 1..Len(file) : LineHasTimestamp[file[i]]}
    IN  IF at = {} THEN 0 ELSE CHOOSE i \in at : \A j \in at : i <= j

\* find_headers has returned.
ScanReturned == pc \notin {"init", "scan"}
\* pd.read_csv has returned the table.
TableRead == pc \in {"rename", "filter", "qc_keys", "meaning", "qc", "returned"}
\* The table is assembled: renamed, filtered, QC keys added.
TableAssembled == pc \in {"meaning", "qc", "returned"}
\* The scan of this call has classified a line without raising.
LineClassified == pc # "init" /\ pos >= 1 /\ ~(pc = "scan" /\ err = IndexError)

\* C1: when find_headers returns, the lines read from the handle are exactly
\* those up to the first line with a timestamp marker, and the rows pd.read_csv
\* reads start at the line after it: no data row is lost.
C1_NoOverRead ==
    /\ ScanReturned => FirstTimestampLine >= 1
    /\ (ScanReturned /\ ~TableRead) => pos = FirstTimestampLine
    /\ TableRead =>
          df.rows = [k \in 1..(Len(file) - FirstTimestampLine) |-> FirstTimestampLine + k]

\* C1 witness: the column line is the second line and a data row follows it.
C1_Witness ==
    /\ pc = "rename"
    /\ FirstTimestampLine = 2
    /\ Len(df.rows) >= 1
    /\ df.rows[1] = 3

\* C2 (as claimed): with no timestamp marker in any line, the scan ends only by
\* exhausting the source: every line is read and the error is the one of the
\* exhausted source.
C2_ExhaustsThenFails ==
    (FirstTimestampLine = 0 /\ err # NoError) => (err = StopIteration /\ pos = Len(file))

\* The lines the scan of this call has read (pd.read_csv reads the others).
LinesScanned == IF TableRead THEN FirstTimestampLine ELSE pos

\* C3 (as claimed): when a line has a timestamp marker, the scan ends on the
\* first such line, with that line's fields as the headers and the lowest
\* marked field position as the timestamp index.
C3_StopsOnFirstTimestampLine ==
    FirstTimestampLine >= 1 =>
        /\ ~(pc = "scan" /\ err # NoError)
        /\ ScanReturned =>
              /\ LinesScanned = FirstTimestampLine
              /\ headers = csv_reader(LineText(FirstTimestampLine))
              /\ timestamp + 1 \in 1..Len(headers)
              /\ \A k \in 1..Len(headers) :
                    (Contains(headers[k], sDateTime) \/ Contains(headers[k], sFechaTiempo))
                        => timestamp + 1 <= k
              /\ \/ Contains(headers[timestamp + 1], sDateTime)
                 \/ Contains(headers[timestamp + 1], sFechaTiempo)

\* C4 (as claimed): a scan that ends with no serial number is no error:
\* from_csv goes on to build the metadata.
C4_AbsentSerialIsNoError ==
    (pc = "metadata" /\ sn = None /\ Len(title) >= 2) => err = NoError

\* The pairs (i, j) of the claim: a primary field i and a separate fallback
\* field j of the line just classified.
C5_Pairs ==
    {ij \in (1..Len(headers)) \X (1..Len(headers)) :
        /\ ij[1] # ij[2]
        /\ Contains(headers[ij[1]], sHighResTempDot)
        /\ Contains(headers[ij[2]], sTemperature)}

\* The last field of the line just classified that has a fallback marker.
C5_LastFallbackMatch ==
    LET at == {i \in 1..Len(headers) :
                  \/ Contains(headers[i], sTempComma)
                  \/ Contains(headers[i], sTempDot)
                  \/ Contains(headers[i], sTemperature)}
    IN  CHOOSE i \in at : \A j \in at : j <= i

\* C5 (as claimed): with a primary and a separate fallback field in the header,
\* in whichever order, the temp slot holds the fallback field's descriptor.
C5_FallbackWinsAnyOrder ==
    (LineClassified /\ headers # NoneList) =>
        \A ij \in C5_Pairs : name.temp = Descriptor(headers[ij[2]])

\* C5 (amended): with a primary and a separate fallback field in the header, the
\* temp slot holds the descriptor of the last field, in header order, that has
\* any of the fallback markers 'Temp,', 'Temp.', 'Temperature' -- which the
\* primary field "High Res. Temp." has too.
C5_LastMatchWins ==
    (LineClassified /\ headers # NoneList /\ C5_Pairs # {}) =>
        name.temp = Descriptor(headers[C5_LastFallbackMatch])

\* C5 witness: the fallback field comes first and the primary field's
\* descriptor is the one in the slot.
C5_Witness ==
    /\ LineClassified /\ headers # NoneList
    /\ \E ij \in C5_Pairs :
          /\ ij[2] < ij[1]
          /\ name.temp = Descriptor(headers[ij[1]])
          /\ name.temp # Descriptor(headers[ij[2]])

\* C6 (as claimed): when the column line has no channel marker, all four slots
\* are absent once the scan has returned, whatever lines were read before.
C6_NoMarkersAllAbsent ==
    (ScanReturned /\
     \A i \in 1..Len(headers) :
         /\ ~Contains(headers[i], sHighResTempDot) /\ ~Contains(headers[i], sHighResTemp)
         /\ ~Contains(headers[i], sTempComma) /\ ~Contains(headers[i], sTempDot)
         /\ ~Contains(headers[i], sTemperature) /\ ~Contains(headers[i], sPresAbs)
         /\ ~Contains(headers[i], sRHComma) /\ ~Contains(headers[i], sBattV))
    => name = NoName

\* C7 (as claimed): in every assembled table the data columns are exactly the
\* display names of the populated slots, each once, each with its one QC column
\* "<display name>_QC" set to 0, and no column stands for an absent slot.
C7_ColumnsArePopulatedSlots ==
    TableAssembled =>
        /\ {df.data[i] : i \in 1..Len(df.data)} = {name[s][1] : s \in {x \in Slots : name[x] # Absent}}
        /\ ~HasDuplicates(df.data)
        /\ \A i \in 1..Len(df.data) : df.data[i] # None
        /\ df.qc = [i \in 1..Len(df.data) |-> df.data[i] \o sQC]
        /\ pc = "meaning" =>
              \A c \in DOMAIN flags : \A r \in DOMAIN flags[c] : flags[c][r] = 0

\* The calls the QC pass makes for the parameters ps, as the claim orders them.
C8_ExpectedLog(ps) ==
    [k \in 1..(5 * Len(ps)) |->
        <<ps[((k - 1) \div 5) + 1],
          <<"reset_flag", "flat_test", "spike_test", "range_test", "flag2flag">>[((k - 1) % 5) + 1]>>]

\* C8: when from_csv returns with QC mode on, the calls were made per parameter
\* in the order reset, flat, spike, range, rewrite of 0 to 1, and every QC flag is
\* 1 or 4; with QC mode off no call was made and every QC flag is 0.
C8_QcOrderAndFlags ==
    pc = "returned" =>
        IF qc_tests
        THEN /\ qcLog = C8_ExpectedLog(parameters(df))
             /\ \A c \in DOMAIN flags : \A r \in DOMAIN flags[c] : flags[c][r] \in {1, 4}
        ELSE /\ qcLog = <<>>
             /\ \A c \in DOMAIN flags : \A r \in DOMAIN flags[c] : flags[c][r] = 0

\* C8 witness: a QC run that left a flagged row and a nominal one.
C8_Witness ==
    /\ pc = "returned" /\ qc_tests
    /\ \E c \in DOMAIN flags : \E r \in DOMAIN flags[c] : flags[c][r] = 4
    /\ \E c \in DOMAIN flags : \E r \in DOMAIN flags[c] : flags[c][r] = 1


\* The serial number a search for the keywords kws finds in each line.
C9_ByLineSpaced ==
    [v \in 1..Len(Vocabulary) |->
        regex_search({sLGR, <<"S","e","r","i","a","l"," ","N","u","m","b","e","r",":"," ">>}, Vocabulary[v])]
C9_ByLine ==
    [v \in 1..Len(Vocabulary) |->
        regex_search({sLGR, sSerialNumber}, Vocabulary[v])]

\* The digit group of the first line read that byLine finds one in, or None.
C9_First(byLine) ==
    LET at == {i \in 1..LinesScanned : byLine[file[i]] # None}
    IN  IF at = {} THEN None
        ELSE byLine[file[CHOOSE i \in at : \A j \in at : i <= j]]

\* C9 (as claimed): the serial number is the digit group of the first line read
\* with "LGR S/N: <digits>" or "Serial Number: <digits>", both with a space
\* after the colon.
C9_FirstMatchSpaced == pc # "init" => sn = C9_First(C9_ByLineSpaced)

\* C9 (amended): the serial number is the digit group of the first line read
\* with "LGR S/N: <digits>" (a space after the colon) or "Serial Number:<digits>"
\* (the digits right after the colon); a later line never changes it.
C9_FirstMatch == pc # "init" => sn = C9_First(C9_ByLine)

\* C9 witness: two lines read, both with a serial number, the first one kept.
C9_Witness ==
    /\ pc = "scan" /\ pos >= 2
    /\ C9_ByLine[file[1]] # None
    /\ C9_ByLine[file[2]] # None
    /\ C9_ByLine[file[2]] # C9_ByLine[file[1]]
    /\ sn = C9_ByLine[file[1]]

\* C10 (as claimed): column classification raises nothing on any line of the scan.
C10_ClassificationNeverRaises == ~(pc = "scan" /\ err = IndexError)
====
